---- MODULE Spec2Model ----
(***************************************************************************)
(* AIgram: the Remote Data Gateway (lib/appwrite/api.ts) and the           *)
(* Query/Mutation Cache Layer (lib/react-query/queriesAndMutations.ts,     *)
(* queryKeys.ts) as a state machine.                                       *)
(*                                                                         *)
(* The backend (documents, storage) is a record `backend`. Every SDK call  *)
(* has an outcome chosen by the environment: "ok" (resolves with a value), *)
(* "throw" (rejects) or "falsy" (resolves with no value, the case the      *)
(* code's `if (!x)` tests are written for). Gateway functions are          *)
(* operators from (input, backend, outcomes) to the returned value, the    *)
(* backend afterwards and the SDK calls issued, in order.                  *)
(***************************************************************************)
EXTENDS Integers, Sequences, FiniteSets, TLC

VARIABLES backend, cache, obs, nmut, last, ui

vars == <<backend, cache, obs, nmut, last, ui>>

\* ------------------------------------------------------------------ bounds
\* ID.unique() values handed out in one run
MaxIds == 4
\* mutations triggered in one run of the cache layer
MaxMut == 1
\* cache entries held at once (the others have been garbage-collected)
MaxEntries == 1
\* posts the backend holds when the feed is paged through
MaxFeedPosts == 19

\* ------------------------------------------------------------ JS values
\* JS `undefined` where a string is expected (an id, a key part)
Undefined == "undefined"
\* JS `undefined` where an object is expected (a document, a result)
UndefinedDoc == [undefined |-> TRUE]
\* an async function that threw: the promise it returned is rejected
Rejected == [rejected |-> TRUE]

Outcomes == {"ok", "throw", "falsy"}

\* ID.unique(): the n-th identifier handed out
IdPool == <<"i1", "i2", "i3", "i4", "i5", "i6", "i7", "i8">>

Call(op, arg) == [op |-> op, arg |-> arg]
\* an SDK call that sends a document
CallWith(op, arg, data) == [op |-> op, arg |-> arg, data |-> data]

Ret(ret, be, calls) == [ret |-> ret, be |-> be, calls |-> calls]

\* `data?.$id`
IdOf(data) == IF data = UndefinedDoc THEN Undefined ELSE data.id

\* ------------------------------------------------------------- storage
\* api.ts uploadFile: storage.createFile(storageId, ID.unique(), file)
uploadFile(file, be, out) ==
    LET fid == IdPool[be.nextId]
        c == <<Call("storage.createFile", fid)>>
    IN  IF out = "ok"
        THEN Ret([id |-> fid],
                 [be EXCEPT !.files = @ \cup {fid}, !.nextId = @ + 1], c)
        ELSE Ret(UndefinedDoc, [be EXCEPT !.nextId = @ + 1], c)

\* api.ts getFilePreview: storage.getFilePreview(storageId, fileId, 2000, 2000, "top", 100)
getFilePreview(fileId, out) ==
    IF out = "ok" THEN <<"preview", fileId>> ELSE <<>>

\* api.ts deleteFile: storage.deleteFile(storageId, fileId)
deleteFile(fileId, be, out) ==
    LET c == <<Call("storage.deleteFile", fileId)>>
    IN  IF out = "ok"
        THEN Ret([status |-> "ok"], [be EXCEPT !.files = @ \ {fileId}], c)
        ELSE Ret(UndefinedDoc, be, c)

\* ------------------------------------------------------------ createPost
\* a createPost that passes the caption for the creator and the user for
\* the caption
NewPostDocSwapped(post, fileUrl, fileId, be) ==
    [id |-> IdPool[be.nextId], creator |-> post.caption, caption |-> post.userId,
     imageUrl |-> fileUrl, imageId |-> fileId, likes |-> <<>>,
     createdAt |-> be.clock + 1, updatedAt |-> be.clock + 1]

\* the document databases.createDocument stores for createPost
NewPostDoc(post, fileUrl, fileId, be) ==
    [id |-> IdPool[be.nextId], creator |-> post.userId, caption |-> post.caption,
     imageUrl |-> fileUrl, imageId |-> fileId, likes |-> <<>>,
     createdAt |-> be.clock + 1, updatedAt |-> be.clock + 1]

\* a createPost that does not test the preview URL before it creates the
\* document
createPostNoPreviewCheck(post, be, out) ==
    LET up == uploadFile(post.file[1], be, out.upload)
    IN  IF up.ret = UndefinedDoc
        THEN Ret(UndefinedDoc, up.be, up.calls)
        ELSE
        LET fid == up.ret.id
            fileUrl == getFilePreview(fid, out.preview)
            c1 == up.calls \o <<Call("storage.getFilePreview", fid)>>
        IN
            LET doc == NewPostDoc(post, fileUrl, fid, up.be)
                c2 == c1 \o <<CallWith("databases.createDocument", doc.id, doc)>>
                used == [up.be EXCEPT !.nextId = @ + 1]
            IN  CASE out.doc = "ok" ->
                       Ret(doc, [used EXCEPT !.posts = @ \cup {doc},
                                             !.clock = @ + 1], c2)
                  [] out.doc = "throw" ->
                       Ret(UndefinedDoc, used, c2)
                  [] OTHER ->
                       LET d == deleteFile(fid, used, out.del)
                       IN  Ret(UndefinedDoc, d.be, c2 \o d.calls)

\* api.ts createPost
createPost(post, be, out) ==
    LET up == uploadFile(post.file[1], be, out.upload)
    IN  IF up.ret = UndefinedDoc
        THEN Ret(UndefinedDoc, up.be, up.calls)
        ELSE
        LET fid == up.ret.id
            fileUrl == getFilePreview(fid, out.preview)
            c1 == up.calls \o <<Call("storage.getFilePreview", fid)>>
        IN  IF fileUrl = <<>>
            THEN LET d == deleteFile(fid, up.be, out.del)
                 IN  Ret(UndefinedDoc, d.be, c1 \o d.calls)
            ELSE
            LET doc == NewPostDoc(post, fileUrl, fid, up.be)
                c2 == c1 \o <<CallWith("databases.createDocument", doc.id, doc)>>
                used == [up.be EXCEPT !.nextId = @ + 1]
            IN  CASE out.doc = "ok" ->
                       Ret(doc, [used EXCEPT !.posts = @ \cup {doc},
                                             !.clock = @ + 1], c2)
                  [] out.doc = "throw" ->
                       Ret(UndefinedDoc, used, c2)
                  [] OTHER ->
                       LET d == deleteFile(fid, used, out.del)
                       IN  Ret(UndefinedDoc, d.be, c2 \o d.calls)

\* ------------------------------------------------------------ documents
PostById(be, postId) == {d \in be.posts : d.id = postId}

\* what an SDK call on one existing document does when asked for a missing one
DocOutcome(exists, out) == IF out = "ok" /\ ~exists THEN "throw" ELSE out

\* ------------------------------------------------------------ updatePost
\* api.ts updatePost, the step after the image is decided
updateDocumentStep(post, image, hasFileToUpdate, be, calls, out) ==
    LET old == PostById(be, post.postId)
        c == calls \o <<CallWith("databases.updateDocument", post.postId,
                                  [caption |-> post.caption, imageUrl |-> image.imageUrl,
                                   imageId |-> image.imageId])>>
        o == DocOutcome(old # {}, out.doc)
    IN  CASE o = "ok" ->
               LET cur == CHOOSE d \in old : TRUE
                   upd == [cur EXCEPT !.caption = post.caption,
                                      !.imageUrl = image.imageUrl,
                                      !.imageId = image.imageId,
                                      !.updatedAt = be.clock + 1]
                   be1 == [be EXCEPT !.posts = (@ \ old) \cup {upd}, !.clock = @ + 1]
               IN  IF hasFileToUpdate
                   THEN LET d == deleteFile(post.imageId, be1, out.del)
                        IN  Ret(upd, d.be, c \o d.calls)
                   ELSE Ret(upd, be1, c)
          [] o = "throw" -> Ret(UndefinedDoc, be, c)
          [] OTHER ->
               IF hasFileToUpdate
               THEN LET d == deleteFile(image.imageId, be, out.del)
                    IN  Ret(UndefinedDoc, d.be, c \o d.calls)
               ELSE Ret(UndefinedDoc, be, c)

\* api.ts updatePost
updatePost(post, be, out) ==
    LET hasFileToUpdate == Len(post.file) > 0
        image == [imageUrl |-> post.imageUrl, imageId |-> post.imageId]
    IN  IF ~hasFileToUpdate
        THEN updateDocumentStep(post, image, FALSE, be, <<>>, out)
        ELSE
        LET up == uploadFile(post.file[1], be, out.upload)
        IN  IF up.ret = UndefinedDoc
            THEN Ret(UndefinedDoc, up.be, up.calls)
            ELSE
            LET fid == up.ret.id
                fileUrl == getFilePreview(fid, out.preview)
                c1 == up.calls \o <<Call("storage.getFilePreview", fid)>>
            IN  IF fileUrl = <<>>
                THEN LET d == deleteFile(fid, up.be, out.del)
                     IN  Ret(UndefinedDoc, d.be, c1 \o d.calls)
                ELSE updateDocumentStep(post,
                         [imageUrl |-> fileUrl, imageId |-> fid], TRUE, up.be, c1, out)

\* `!x` for a string: undefined and "" are falsy
Falsy(x) == x \in {Undefined, ""}

\* ------------------------------------------------------------ deletePost
\* api.ts deletePost
deletePost(postId, imageId, be, out) ==
    IF Falsy(postId) \/ Falsy(imageId)
    THEN Ret(UndefinedDoc, be, <<>>)
    ELSE
    LET old == PostById(be, postId)
        c == <<Call("databases.deleteDocument", postId)>>
    IN  IF DocOutcome(old # {}, out.doc) = "ok"
        THEN LET d == deleteFile(imageId, [be EXCEPT !.posts = @ \ old,
                                                     !.clock = @ + 1], out.del)
             IN  Ret([status |-> "Ok"], d.be, c \o d.calls)
        ELSE Ret(UndefinedDoc, be, c)

\* -------------------------------------------------------------- likePost
\* api.ts likePost
likePost(postId, likesArray, be, out) ==
    LET old == PostById(be, postId)
        c == <<Call("databases.updateDocument", postId)>>
    IN  IF DocOutcome(old # {}, out.doc) = "ok"
        THEN LET cur == CHOOSE d \in old : TRUE
                 upd == [cur EXCEPT !.likes = likesArray, !.updatedAt = be.clock + 1]
             IN  Ret(upd, [be EXCEPT !.posts = (@ \ old) \cup {upd},
                                     !.clock = @ + 1], c)
        ELSE Ret(UndefinedDoc, be, c)

\* -------------------------------------------------------------- savePost
\* api.ts savePost
savePost(userId, postId, be, out) ==
    LET sid == IdPool[be.nextId]
        c == <<Call("databases.createDocument", sid)>>
        used == [be EXCEPT !.nextId = @ + 1]
    IN  IF out.doc = "ok"
        THEN LET doc == [id |-> sid, user |-> userId, post |-> postId]
             IN  Ret(doc, [used EXCEPT !.saves = @ \cup {doc}, !.clock = @ + 1], c)
        ELSE Ret(UndefinedDoc, used, c)

\* api.ts deleteSavedPost
deleteSavedPost(savedRecordId, be, out) ==
    LET old == {d \in be.saves : d.id = savedRecordId}
        c == <<Call("databases.deleteDocument", savedRecordId)>>
    IN  IF DocOutcome(old # {}, out.doc) = "ok"
        THEN Ret([status |-> "Ok"], [be EXCEPT !.saves = @ \ old,
                                               !.clock = @ + 1], c)
        ELSE Ret(UndefinedDoc, be, c)

\* ------------------------------------------------------------------ auth
\* the value a catch block receives: what the SDK rejected with, or the
\* `Error` the code itself throws
ErrorValue(what) == [error |-> what]

\* api.ts saveUserToDB: databases.createDocument on the users collection
saveUserToDB(user, be, out) ==
    LET uid == IdPool[be.nextId]
        c == <<CallWith("databases.createDocument", uid, user)>>
        used == [be EXCEPT !.nextId = @ + 1]
        doc == [id |-> uid, accountId |-> user.accountId, createdAt |-> be.clock + 1]
    IN  IF out.doc = "ok"
        THEN Ret(doc, [used EXCEPT !.users = @ \cup {doc}, !.clock = @ + 1], c)
        ELSE Ret(UndefinedDoc, used, c)

\* api.ts createUserAccount
createUserAccount(user, be, out) ==
    LET aid == IdPool[be.nextId]
        c == <<Call("account.create", aid)>>
        used == [be EXCEPT !.nextId = @ + 1]
    IN  CASE out.account = "throw" -> Ret(ErrorValue("AppwriteException"), used, c)
          [] out.account = "falsy" -> Ret(ErrorValue("Error"), used, c)
          [] OTHER ->
               LET made == [used EXCEPT !.accounts = @ \cup {aid}]
                   saved == saveUserToDB([accountId |-> aid, name |-> user.name],
                                         made, out)
               IN  Ret(saved.ret, saved.be, c \o saved.calls)

\* api.ts signInAccount: account.createEmailSession(email, password)
signInAccount(user, be, out) ==
    LET c == <<Call("account.createEmailSession", user.account)>>
    IN  IF out.account = "ok" /\ user.account \in be.accounts
        THEN Ret([session |-> user.account], [be EXCEPT !.account = user.account], c)
        ELSE Ret(UndefinedDoc, be, c)

\* api.ts signOutAccount: account.deleteSession("current")
signOutAccount(be, out) ==
    LET c == <<Call("account.deleteSession", "current")>>
    IN  IF out.account = "ok" /\ be.account # Undefined
        THEN Ret([deleted |-> TRUE], [be EXCEPT !.account = Undefined], c)
        ELSE Ret(UndefinedDoc, be, c)

\* ----------------------------------------------------------------- reads
\* Query.limit(20) of getRecentPosts
RecentLimit == 20
\* Query.limit(9) of getInfinitePosts
FeedLimit == 9

\* the documents of S, greatest `field` first (Query.orderDesc)
RECURSIVE OrderDesc(_, _)
OrderDesc(S, field) ==
    IF S = {} THEN <<>>
    ELSE LET m == CHOOSE d \in S : \A e \in S : e[field] <= d[field]
         IN  <<m>> \o OrderDesc(S \ {m}, field)

\* Query.limit(n)
Limit(docs, n) == SubSeq(docs, 1, IF Len(docs) < n THEN Len(docs) ELSE n)

\* Query.cursorAfter(id): what follows the document `id`
CursorAfter(docs, id) ==
    LET i == CHOOSE k \in 1..Len(docs) : docs[k].id = id
    IN  SubSeq(docs, i + 1, Len(docs))

\* the value databases.listDocuments resolves with
List(docs) == [documents |-> docs]

\* one databases.listDocuments call on a collection: the listing on "ok",
\* undefined otherwise (a rejection and a falsy answer both reach the catch)
Listing(collection, docs, be, out) ==
    Ret(IF out = "ok" THEN List(docs) ELSE UndefinedDoc, be,
        <<Call("databases.listDocuments", collection)>>)

\* one databases.getDocument call: the document on "ok", undefined otherwise
Document(found, id, be, out) ==
    Ret(IF DocOutcome(found # {}, out) = "ok"
        THEN CHOOSE d \in found : TRUE ELSE UndefinedDoc,
        be, <<Call("databases.getDocument", id)>>)

\* api.ts getRecentPosts
getRecentPosts(be, out) ==
    Listing("posts", Limit(OrderDesc(be.posts, "createdAt"), RecentLimit), be, out)

\* api.ts getInfinitePosts
getInfinitePosts(pageParam, be, out) ==
    LET all == OrderDesc(be.posts, "updatedAt")
    IN  IF ~Falsy(pageParam)
        THEN IF PostById(be, pageParam) # {}
             THEN Listing("posts", Limit(CursorAfter(all, pageParam), FeedLimit), be, out)
             ELSE Listing("posts", <<>>, be, DocOutcome(FALSE, out))
        ELSE Listing("posts", Limit(all, FeedLimit), be, out)

\* api.ts getPostById: `if (!postId) throw Error` stands before the try, so
\* the promise getPostById returns is rejected
getPostById(postId, be, out) ==
    IF Falsy(postId) THEN Ret(Rejected, be, <<>>)
    ELSE Document(PostById(be, postId), postId, be, out)

\* api.ts getUserPosts
getUserPosts(userId, be, out) ==
    IF Falsy(userId) THEN Ret(UndefinedDoc, be, <<>>)
    ELSE Listing("posts",
                 OrderDesc({d \in be.posts : d.creator = userId}, "createdAt"), be, out)

\* api.ts searchPosts: Query.search("caption", searchTerm)
searchPosts(searchTerm, be, out) ==
    Listing("posts",
            OrderDesc({d \in be.posts : d.caption = searchTerm}, "createdAt"), be, out)

\* api.ts getCurrentUser: account.get(), then the user documents of that
\* account, of which it returns the first (undefined when there is none)
getCurrentUser(be, out) ==
    LET mine == OrderDesc({u \in be.users : u.accountId = be.account}, "createdAt")
        c == <<Call("account.get", Undefined)>>
    IN  IF out.account # "ok" \/ be.account = Undefined
        THEN Ret(UndefinedDoc, be, c)
        ELSE LET l == Listing("users", mine, be, out.doc)
             IN  Ret(IF l.ret = UndefinedDoc \/ mine = <<>>
                     THEN UndefinedDoc ELSE mine[1],
                     be, c \o l.calls)

\* the number a limit argument stands for
LimitOf(limit) == IF limit = "1" THEN 1 ELSE 2

\* api.ts getUsers
getUsers(limit, be, out) ==
    LET all == OrderDesc(be.users, "createdAt")
    IN  Listing("users", IF Falsy(limit) THEN all ELSE Limit(all, LimitOf(limit)),
                be, out)

\* api.ts getUserById
getUserById(userId, be, out) ==
    Document({u \in be.users : u.id = userId}, userId, be, out)

\* ------------------------------------------------------------ cache keys
\* queryKeys.ts: the members the enum declares
QUERY_KEYS ==
    [CREATE_USER_ACCOUNT |-> "createUserAccount",
     GET_POSTS |-> "getPosts",
     GET_INFINITE_POSTS |-> "getInfinitePosts",
     GET_RECENT_POSTS |-> "getRecentPosts",
     GET_POST_BY_ID |-> "getPostById",
     GET_USER_POSTS |-> "getUserPosts",
     GET_FILE_PREVIEW |-> "getFilePreview",
     SEARCH_POSTS |-> "getSearchPosts"]

\* `QUERY_KEYS.name` at run time: a member the enum lacks reads as undefined
QK(name) == IF name \in DOMAIN QUERY_KEYS THEN QUERY_KEYS[name] ELSE Undefined

Read(hook, arg) == [hook |-> hook, arg |-> arg]

NoRead == Read("none", Undefined)

\* the read hooks, with the arguments the components pass
Reads ==
    {Read("useGetRecentPosts", Undefined), Read("useGetPosts", Undefined),
     Read("useGetCurrentUser", Undefined)}
    \cup {Read("useGetPostById", a) : a \in {"p1", "p2", Undefined}}
    \cup {Read("useGetUserPosts", a) : a \in {"u1", Undefined}}
    \cup {Read("useSearchPosts", a) : a \in {"hi", ""}}
    \cup {Read("useGetUsers", a) : a \in {Undefined, "1"}}
    \cup {Read("useGetUserById", a) : a \in {"u1", "u2", ""}}

\* the queryKey each read hook declares
queryKey(r) ==
    CASE r.hook = "useGetRecentPosts" -> <<QK("GET_RECENT_POSTS")>>
      [] r.hook = "useGetPosts" -> <<QK("GET_INFINITE_POSTS")>>
      [] r.hook = "useGetPostById" -> <<QK("GET_POST_BY_ID"), r.arg>>
      [] r.hook = "useGetUserPosts" -> <<QK("GET_USER_POSTS"), r.arg>>
      [] r.hook = "useSearchPosts" -> <<QK("SEARCH_POSTS"), r.arg>>
      [] r.hook = "useGetCurrentUser" -> <<QK("GET_CURRENT_USER")>>
      [] r.hook = "useGetUsers" -> <<QK("GET_USERS")>>
      [] r.hook = "useGetUserById" -> <<QK("GET_USER_BY_ID"), r.arg>>

\* a read hook that leaves out its `enabled` option
enabledAlways(r) == TRUE

\* the `enabled` option each read hook declares (`!!arg`; absent: enabled)
enabled(r) ==
    IF r.hook \in {"useGetPostById", "useGetUserPosts", "useSearchPosts", "useGetUserById"}
    THEN ~Falsy(r.arg)
    ELSE TRUE

\* the queryFn each read hook declares
queryFn(r, pageParam, be, out) ==
    CASE r.hook = "useGetRecentPosts" -> getRecentPosts(be, out)
      [] r.hook = "useGetPosts" -> getInfinitePosts(pageParam, be, out)
      [] r.hook = "useGetPostById" -> getPostById(r.arg, be, out)
      [] r.hook = "useGetUserPosts" -> getUserPosts(r.arg, be, out)
      [] r.hook = "useSearchPosts" -> searchPosts(r.arg, be, out)
      [] r.hook = "useGetCurrentUser" ->
           getCurrentUser(be, [account |-> out, doc |-> out])
      [] r.hook = "useGetUsers" -> getUsers(r.arg, be, out)
      [] r.hook = "useGetUserById" -> getUserById(r.arg, be, out)

\* what the cache makes of a queryFn's promise: a rejection and an undefined
\* result are both a failed fetch
Failed(result) == result \in {UndefinedDoc, Rejected}

\* useGetPosts getNextPageParam; null is "no more pages"
Null == "null"

\* a getNextPageParam that takes the first document of the page for the cursor
getNextPageParamFirst(lastPage) ==
    IF Len(lastPage.documents) = 0
    THEN Null
    ELSE lastPage.documents[1].id

getNextPageParam(lastPage) ==
    IF Len(lastPage.documents) = 0
    THEN Null
    ELSE lastPage.documents[Len(lastPage.documents)].id

\* the cache's identity of a key: JSON.stringify writes undefined as null
hashKey(key) == [i \in 1..Len(key) |-> IF key[i] = Undefined THEN "null" ELSE key[i]]

Keys == {queryKey(r) : r \in Reads}
Hashes == {hashKey(k) : k \in Keys}
EntryKeys == [h \in Hashes |-> CHOOSE k \in Keys : hashKey(k) = h]
EntryKey(h) == EntryKeys[h]
HashOf(r) == hashKey(queryKey(r))

\* invalidateQueries matches a query whose key starts with the filter's key
partialMatchKey(key, filter) ==
    \A i \in 1..Len(filter) :
        (IF i <= Len(key) THEN key[i] ELSE Undefined) = filter[i]

\* ---------------------------------------------------------- cache entries
Comps == {"c1", "c2"}

NoData == [nodata |-> TRUE]

\* an entry nobody has fetched: the spec's `absent`
NoEntry == [data |-> NoData, isInvalidated |-> FALSE, fetching |-> "idle", fn |-> NoRead]

HasData(e) == e.data # NoData

\* the entry counts against the cache's size
Live(e) == e # NoEntry

\* the spec's states of an entry
Loading(e) == e.fetching # "idle"
Stale(e) == HasData(e) /\ e.isInvalidated
Fresh(e) == HasData(e) /\ ~e.isInvalidated /\ e.fetching = "idle"

Observers(h, o) == {c \in Comps : o[c] # NoRead /\ HashOf(o[c]) = h}

\* a query is refetched on invalidation when an enabled observer is mounted
Active(h, o) == \E c \in Observers(h, o) : enabled(o[c])

NoneIssued == [h \in Hashes |-> 0]

\* a cache that starts a fetch of its own for every observer
JoinsNever(e) == FALSE

\* an observer mounts on an entry in flight: it joins the pending fetch
JoinsFetch(e) == e.fetching # "idle"

\* useQuery on mount: fetch unless a fetch is in flight; with data that is not
\* invalidated the client's staleTime decides (`staleOnMount`)
FetchOnMount(e, staleOnMount) ==
    /\ ~JoinsFetch(e)
    /\ (~HasData(e) \/ e.isInvalidated \/ staleOnMount)

\* queryClient.invalidateQueries({queryKey: filter}) on st = [cache, issued]
invalidateQueries(filter, st, o) ==
    LET matched(h) == partialMatchKey(EntryKey(h), filter)
        refetch(h) == /\ matched(h)
                      /\ Active(h, o)
                      /\ ~(st.cache[h].fetching # "idle" /\ ~HasData(st.cache[h]))
    IN  [cache |-> [h \in Hashes |->
                      IF ~matched(h) THEN st.cache[h]
                      ELSE [st.cache[h] EXCEPT
                              !.isInvalidated = HasData(st.cache[h]),
                              !.fetching = IF refetch(h) THEN "fetch" ELSE @]],
         issued |-> [h \in Hashes |->
                      IF refetch(h) THEN st.issued[h] + 1 ELSE st.issued[h]]]

\* the onSuccess callback: its invalidateQueries calls in order
RECURSIVE InvalidateAll(_, _, _)
InvalidateAll(filters, st, o) ==
    IF filters = <<>> THEN st
    ELSE InvalidateAll(Tail(filters), invalidateQueries(Head(filters), st, o), o)

\* a useCreatePost that invalidates the key of no read
useCreatePostKeysOther(data) == << <<QK("GET_POSTS")>> >>

\* a useUpdatePost that takes the discriminator from another field of the post
useUpdatePostKeysOther(data) ==
    << <<QK("GET_POST_BY_ID"), IF data = UndefinedDoc THEN Undefined ELSE data.imageId>> >>

\* the keys each mutation hook invalidates in onSuccess(data)
useCreatePostKeys(data) == << <<QK("GET_RECENT_POSTS")>> >>
useUpdatePostKeys(data) == << <<QK("GET_POST_BY_ID"), IdOf(data)>> >>
useDeletePostKeys(data) == << <<QK("GET_RECENT_POSTS")>> >>
useLikePostKeys(data) ==
    << <<QK("GET_POST_BY_ID"), IdOf(data)>>, <<QK("GET_RECENT_POSTS")>>,
       <<QK("GET_POSTS")>>, <<QK("GET_CURRENT_USER")>> >>
useSavePostKeys(data) ==
    << <<QK("GET_RECENT_POSTS")>>, <<QK("GET_POSTS")>>, <<QK("GET_CURRENT_USER")>> >>
useDeleteSavedPostKeys(data) ==
    << <<QK("GET_RECENT_POSTS")>>, <<QK("GET_POSTS")>>, <<QK("GET_CURRENT_USER")>> >>

\* ------------------------------------------------------- infinite query
\* refetch of useGetPosts: the first page, then as many following pages as
\* the entry held, each from getNextPageParam of the page before
RECURSIVE FetchPages(_, _, _, _, _)
FetchPages(n, pages, params, be, out) ==
    IF n = 0 THEN [pages |-> pages, pageParams |-> params]
    ELSE LET param == IF pages = <<>> THEN Undefined
                      ELSE getNextPageParam(pages[Len(pages)])
         IN  IF param = Null THEN [pages |-> pages, pageParams |-> params]
             ELSE LET page == queryFn(Read("useGetPosts", Undefined), param, be, out).ret
                  IN  IF Failed(page) THEN UndefinedDoc
                      ELSE FetchPages(n - 1, Append(pages, page),
                                      Append(params, param), be, out)

\* what the fetch in flight on entry e resolves with
FetchResult(e, be, out) ==
    IF e.fn.hook = "useGetPosts"
    THEN IF e.fetching = "next"
         THEN FetchPages(1, e.data.pages, e.data.pageParams, be, out)
         ELSE FetchPages(IF HasData(e) /\ Len(e.data.pages) > 1
                         THEN Len(e.data.pages) ELSE 1, <<>>, <<>>, be, out)
    ELSE queryFn(e.fn, Undefined, be, out).ret

\* useInfiniteQuery hasNextPage
hasNextPage(e) ==
    /\ HasData(e)
    /\ e.data.pages # <<>>
    /\ getNextPageParam(e.data.pages[Len(e.data.pages)]) # Null

\* ------------------------------------------------------------- inputs
UserIds == {"u1", "u2"}
Captions == {"hi", "yo"}
NewPosts == [userId : UserIds, caption : Captions, file : {<<"img">>}]
\* the storage calls' answers are only tested for "no value", which a throw
\* and a falsy resolve both end in
FileOutcomes == {"ok", "throw"}
PostOutcomes ==
    [upload : FileOutcomes, preview : FileOutcomes, doc : Outcomes, del : FileOutcomes]
\* for the operations that call storage.deleteFile at most
DeleteOutcomes == [upload : {"ok"}, preview : {"ok"}, doc : Outcomes, del : FileOutcomes]
\* for the operations made of one document call
DocOutcomes == [upload : {"ok"}, preview : {"ok"}, doc : Outcomes, del : {"ok"}]

EmptyBackend ==
    [posts |-> {}, files |-> {}, saves |-> {}, users |-> {}, accounts |-> {},
     account |-> Undefined, nextId |-> 1, clock |-> 0]

NoLast == [op |-> "none"]

\* no view component is rendered
NoUi == [view |-> "none"]

\* ------------------------------------------------- the Gateway on its own
GatewayInit ==
    /\ backend = EmptyBackend
    /\ cache = [h \in Hashes |-> NoEntry]
    /\ obs = [c \in Comps |-> NoRead]
    /\ nmut = 0
    /\ last = NoLast
    /\ ui = NoUi

CallCreatePost(post, out) ==
    /\ backend.nextId + 1 <= MaxIds
    /\ LET r == createPost(post, backend, out)
       IN  /\ backend' = r.be
           /\ last' = [op |-> "createPost", post |-> post, out |-> out,
                       ret |-> r.ret, calls |-> r.calls]
    /\ UNCHANGED <<cache, obs, nmut, ui>>

GatewayNext ==
    \E post \in NewPosts, out \in PostOutcomes : CallCreatePost(post, out)

GatewaySpec == GatewayInit /\ [][GatewayNext]_vars

\* ------------------------------------------------------ the cache layer
Post(id, creator, caption, fileId, at) ==
    [id |-> id, creator |-> creator, caption |-> caption,
     imageUrl |-> <<"preview", fileId>>, imageId |-> fileId, likes |-> <<>>,
     createdAt |-> at, updatedAt |-> at]

User(id, accountId, at) == [id |-> id, accountId |-> accountId, createdAt |-> at]

\* a backend that already holds two posts, two users and one saved post
SeedBackend ==
    [posts |-> {Post("p1", "u1", "hi", "f1", 1), Post("p2", "u2", "yo", "f2", 2)},
     files |-> {"f1", "f2"},
     saves |-> {[id |-> "s1", user |-> "u1", post |-> "p1"]},
     users |-> {User("u1", "a1", 1), User("u2", "a2", 2)},
     accounts |-> {"a1", "a2"},
     account |-> "a1",
     nextId |-> 1, clock |-> 2]

Init ==
    /\ backend = SeedBackend
    /\ cache = [h \in Hashes |-> NoEntry]
    /\ obs = [c \in Comps |-> NoRead]
    /\ nmut = 0
    /\ last = NoLast
    /\ ui = NoUi

\* a component renders a read hook
Mount(c, r, staleOnMount) ==
    LET h == HashOf(r)
        e == cache[h]
        go == enabled(r) /\ FetchOnMount(e, staleOnMount)
    IN  /\ obs[c] = NoRead
        /\ Live(e) \/ Cardinality({k \in Hashes : Live(cache[k])}) < MaxEntries
        /\ obs' = [obs EXCEPT ![c] = r]
        /\ cache' = IF go THEN [cache EXCEPT ![h].fetching = "fetch", ![h].fn = r]
                    ELSE cache
        /\ last' = [op |-> "mount", hash |-> h, pending |-> e.fetching # "idle",
                    issued |-> IF go THEN [NoneIssued EXCEPT ![h] = 1] ELSE NoneIssued]
        /\ UNCHANGED <<backend, nmut, ui>>

\* the component goes away
Unmount(c) ==
    /\ obs[c] # NoRead
    /\ obs' = [obs EXCEPT ![c] = NoRead]
    /\ last' = [op |-> "idle", issued |-> NoneIssued]
    /\ UNCHANGED <<backend, cache, nmut, ui>>

\* an entry without observers is garbage-collected
Gc(h) ==
    /\ Observers(h, obs) = {}
    /\ Live(cache[h])
    /\ cache[h].fetching = "idle"
    /\ cache' = [cache EXCEPT ![h] = NoEntry]
    /\ last' = [op |-> "idle", issued |-> NoneIssued]
    /\ UNCHANGED <<backend, obs, nmut, ui>>

\* a cache that forgets what an entry held when its refetch fails
ResolveDropsOnFailure(h, out) ==
    LET e == cache[h]
        result == FetchResult(e, backend, out)
    IN  /\ e.fetching # "idle"
        /\ cache' = [cache EXCEPT ![h] =
                       IF Failed(result)
                       THEN [e EXCEPT !.fetching = "idle", !.data = NoData,
                                      !.isInvalidated = FALSE]
                       ELSE [e EXCEPT !.fetching = "idle", !.data = result,
                                      !.isInvalidated = FALSE]]
        /\ last' = [op |-> "resolve", hash |-> h, ok |-> ~Failed(result),
                    issued |-> NoneIssued]
        /\ UNCHANGED <<backend, obs, nmut, ui>>

\* the Gateway call of the fetch in flight on h returns: a result is stored
\* and the entry is no longer invalidated; after a failure the entry keeps
\* what it held
Resolve(h, out) ==
    LET e == cache[h]
        result == FetchResult(e, backend, out)
    IN  /\ e.fetching # "idle"
        /\ cache' = [cache EXCEPT ![h] =
                       IF Failed(result)
                       THEN [e EXCEPT !.fetching = "idle"]
                       ELSE [e EXCEPT !.fetching = "idle", !.data = result,
                                      !.isInvalidated = FALSE]]
        /\ last' = [op |-> "resolve", hash |-> h, ok |-> ~Failed(result),
                    issued |-> NoneIssued]
        /\ UNCHANGED <<backend, obs, nmut, ui>>

\* useGetPosts().fetchNextPage()
FetchNextPage(c) ==
    LET h == HashOf(Read("useGetPosts", Undefined))
    IN  /\ obs[c] = Read("useGetPosts", Undefined)
        /\ cache[h].fetching = "idle"
        /\ hasNextPage(cache[h])
        /\ cache' = [cache EXCEPT ![h].fetching = "next"]
        /\ last' = [op |-> "fetchNextPage", issued |-> [NoneIssued EXCEPT ![h] = 1]]
        /\ UNCHANGED <<backend, obs, nmut, ui>>

\* a mutation hook's mutate(): mutationFn, then onSuccess(data). No Gateway
\* function rejects, so onSuccess runs whatever the backend answered.
Mutate(hook, id, r, filters) ==
    LET st == InvalidateAll(filters, [cache |-> cache, issued |-> NoneIssued], obs)
    IN  /\ nmut < MaxMut
        /\ nmut' = nmut + 1
        /\ backend' = r.be
        /\ cache' = st.cache
        /\ last' = [op |-> hook, id |-> id, ok |-> r.ret # UndefinedDoc,
                    ret |-> r.ret, issued |-> st.issued]
        /\ UNCHANGED <<obs, ui>>

CreatePost(post, out) ==
    LET r == createPost(post, backend, out)
    IN  Mutate("useCreatePost", Undefined, r, useCreatePostKeys(r.ret))

\* the edit form sends a new caption, the image the post has now and
\* possibly a new file
UpdatePosts ==
    {[postId |-> d.id, caption |-> "new", imageId |-> d.imageId,
      imageUrl |-> d.imageUrl, file |-> f] :
        d \in backend.posts, f \in {<<>>, <<"img">>}}

UpdatePost(post, out) ==
    LET r == updatePost(post, backend, out)
    IN  Mutate("useUpdatePost", post.postId, r, useUpdatePostKeys(r.ret))

DeletePost(postId, imageId, out) ==
    LET r == deletePost(postId, imageId, backend, out)
    IN  Mutate("useDeletePost", postId, r, useDeletePostKeys(r.ret))

LikePost(postId, likesArray, out) ==
    LET r == likePost(postId, likesArray, backend, out)
    IN  Mutate("useLikePost", postId, r, useLikePostKeys(r.ret))

SavePost(userId, postId, out) ==
    LET r == savePost(userId, postId, backend, out)
    IN  Mutate("useSavePost", postId, r, useSavePostKeys(r.ret))

DeleteSavedPost(savedRecordId, out) ==
    LET r == deleteSavedPost(savedRecordId, backend, out)
    IN  Mutate("useDeleteSavedPost", savedRecordId, r, useDeleteSavedPostKeys(r.ret))

\* the mutations one run of the cache layer draws from; their storage calls
\* succeed here (GatewaySpec explores the storage failures)
Mutation ==
    \E out \in DocOutcomes :
       \/ CreatePost([userId |-> "u1", caption |-> "hi", file |-> <<"img">>], out)
       \/ \E post \in UpdatePosts : UpdatePost(post, out)
       \/ \E d \in backend.posts : DeletePost(d.id, d.imageId, out)
       \/ \E d \in backend.posts : LikePost(d.id, <<"u1">>, out)
       \/ \E d \in backend.posts : SavePost("u1", d.id, out)
       \/ \E d \in backend.saves : DeleteSavedPost(d.id, out)

Next ==
    \/ \E c \in Comps, r \in Reads, s \in BOOLEAN : Mount(c, r, s)
    \/ \E c \in Comps : Unmount(c)
    \/ \E h \in Hashes : Gc(h)
    \/ \E h \in Hashes, out \in Outcomes : Resolve(h, out)
    \/ Mutation

Spec == Init /\ [][Next]_vars

\* ------------------------------------------------- the feed on its own
FeedRead == Read("useGetPosts", Undefined)
FeedHash == HashOf(FeedRead)

PostPool ==
    <<"d01", "d02", "d03", "d04", "d05", "d06", "d07", "d08", "d09", "d10", "d11", "d12",
      "d13", "d14", "d15", "d16", "d17", "d18", "d19", "d20", "d21", "d22", "d23", "d24">>

\* a backend holding n posts
FeedBackend(n) ==
    [EmptyBackend EXCEPT
       !.posts = {Post(PostPool[k], "u1", "hi", "f1", k) : k \in 1..n},
       !.files = {"f1"}, !.clock = n]

FeedInit ==
    /\ \E n \in 0..MaxFeedPosts : backend = FeedBackend(n)
    /\ cache = [h \in Hashes |-> NoEntry]
    /\ obs = [c \in Comps |-> NoRead]
    /\ nmut = 0
    /\ last = NoLast
    /\ ui = NoUi

FeedNext ==
    \/ \E c \in Comps, s \in BOOLEAN : Mount(c, FeedRead, s)
    \/ \E c \in Comps : Unmount(c)
    \/ Gc(FeedHash)
    \/ \E out \in Outcomes : Resolve(FeedHash, out)
    \/ \E c \in Comps : FetchNextPage(c)

FeedSpec == FeedInit /\ [][FeedNext]_vars

\* ------------------------------------------- every Gateway operation
\* Gateway calls made in one run
MaxCalls == 2

\* how the SDK answered call c of an operation run on backend be
CallOutcome(c, out, be) ==
    CASE c.op = "storage.createFile" -> out.upload
      [] c.op = "storage.getFilePreview" -> out.preview
      [] c.op = "storage.deleteFile" -> out.del
      [] c.op \in {"databases.getDocument", "databases.updateDocument",
                   "databases.deleteDocument"} ->
           DocOutcome(\E d \in be.posts \cup be.saves \cup be.users : d.id = c.arg,
                      out.doc)
      [] c.op \in {"databases.createDocument", "databases.listDocuments"} -> out.doc
      [] OTHER -> out.account

\* some SDK call of the operation rejected
Thrown(calls, out, be) ==
    \E i \in 1..Len(calls) : CallOutcome(calls[i], out, be) = "throw"

\* the Gateway function behind each read hook
GatewayFn ==
    [useGetRecentPosts |-> "getRecentPosts", useGetPosts |-> "getInfinitePosts",
     useGetPostById |-> "getPostById", useGetUserPosts |-> "getUserPosts",
     useSearchPosts |-> "searchPosts", useGetCurrentUser |-> "getCurrentUser",
     useGetUsers |-> "getUsers", useGetUserById |-> "getUserById"]

AccountOutcomes == [account : Outcomes, doc : Outcomes]

NewUsers == [name : {"ann"}]

\* a post id no document has
MissingId == "p9"

OpsInit ==
    /\ backend = SeedBackend
    /\ cache = [h \in Hashes |-> NoEntry]
    /\ obs = [c \in Comps |-> NoRead]
    /\ nmut = 0
    /\ last = NoLast
    /\ ui = NoUi

\* one call of a Gateway function from a component or a hook
Invoke(op, in, out, r) ==
    /\ nmut < MaxCalls
    /\ backend.nextId + 1 <= MaxIds
    /\ nmut' = nmut + 1
    /\ backend' = r.be
    /\ last' = [op |-> op, in |-> in, out |-> out, ret |-> r.ret, calls |-> r.calls,
                threw |-> Thrown(r.calls, out, backend)]
    /\ UNCHANGED <<cache, obs, ui>>

InvokeRead(r, pageParam, o) ==
    LET out == [account |-> o, doc |-> o]
    IN  Invoke(GatewayFn[r.hook], IF r.hook = "useGetPosts" THEN pageParam ELSE r.arg,
               out, queryFn(r, pageParam, backend, o))

InvokeCreatePost(post, out) == Invoke("createPost", post, out, createPost(post, backend, out))

InvokeUpdatePost(post, out) == Invoke("updatePost", post, out, updatePost(post, backend, out))

InvokeDeletePost(postId, imageId, out) ==
    Invoke("deletePost", <<postId, imageId>>, out, deletePost(postId, imageId, backend, out))

InvokeLikePost(postId, out) ==
    Invoke("likePost", postId, out, likePost(postId, <<"u1">>, backend, out))

InvokeSavePost(postId, out) ==
    Invoke("savePost", postId, out, savePost("u1", postId, backend, out))

InvokeDeleteSavedPost(id, out) ==
    Invoke("deleteSavedPost", id, out, deleteSavedPost(id, backend, out))

InvokeCreateUserAccount(user, out) ==
    Invoke("createUserAccount", user, out, createUserAccount(user, backend, out))

InvokeSignIn(a, out) ==
    Invoke("signInAccount", a, out, signInAccount([account |-> a], backend, out))

InvokeSignOut(out) == Invoke("signOutAccount", Undefined, out, signOutAccount(backend, out))

\* the ids and images a component may hand to deletePost: those of a post,
\* or one of them missing
DeleteInputs ==
    {<<d.id, d.imageId>> : d \in backend.posts}
    \cup {<<Undefined, "f1">>, <<"p1", Undefined>>, <<"", "f1">>, <<MissingId, "f1">>}

OpsNext ==
    \/ \E r \in Reads, pageParam \in {Undefined, "p1"}, o \in Outcomes :
          InvokeRead(r, pageParam, o)
    \/ \E out \in PostOutcomes :
          InvokeCreatePost([userId |-> "u1", caption |-> "hi", file |-> <<"img">>], out)
    \/ \E post \in UpdatePosts, out \in PostOutcomes : InvokeUpdatePost(post, out)
    \/ \E in \in DeleteInputs, out \in DeleteOutcomes : InvokeDeletePost(in[1], in[2], out)
    \/ \E id \in {"p1", MissingId}, out \in DocOutcomes : InvokeLikePost(id, out)
    \/ \E out \in DocOutcomes : InvokeSavePost("p2", out)
    \/ \E id \in {"s1", MissingId}, out \in DocOutcomes : InvokeDeleteSavedPost(id, out)
    \/ \E user \in NewUsers, out \in AccountOutcomes : InvokeCreateUserAccount(user, out)
    \/ \E a \in {"a2", MissingId}, out \in AccountOutcomes : InvokeSignIn(a, out)
    \/ \E out \in AccountOutcomes : InvokeSignOut(out)

OpsSpec == OpsInit /\ [][OpsNext]_vars

\* ------------------------------------------------------------ useDebounce
\* changes of the input in one run
MaxChanges == 3
\* the `delay` argument, in ticks of the clock
Delay == 2

\* the values the input takes
Values == {"a", "b", "c"}

\* a pending setTimeout: the value its callback captured, the time left, and
\* whether the input was replaced before the time was up (`early`, like
\* `dropped`, the inputs so replaced, is kept for the record only)
Timer(value, left, early) == [value |-> value, left |-> left, early |-> early]

NoTimer == [value |-> Undefined, left |-> 0, early |-> FALSE]

\* a cleanup that forgets to cancel the timeout
clearTimeoutNone(timers, handler) == timers

\* clearTimeout(handler)
clearTimeout(timers, handler) == timers \ {handler}

\* the component that calls useDebounce(value, delay) mounts: useState(value),
\* and the effect is still to run
DebounceInit ==
    /\ backend = EmptyBackend
    /\ cache = [h \in Hashes |-> NoEntry]
    /\ obs = [c \in Comps |-> NoRead]
    /\ nmut = 0
    /\ last = NoLast
    /\ \E v \in Values :
          ui = [view |-> "useDebounce", value |-> v, debouncedValue |-> v,
                timers |-> {}, handler |-> NoTimer, effect |-> TRUE, changes |-> 0,
                dropped |-> {}]

\* the component renders with another input value: the effect's dependencies
\* changed, so the cleanup and the effect are scheduled
Render(v) ==
    /\ ui.changes < MaxChanges
    /\ ~ui.effect
    /\ v # ui.value
    /\ ui' = [ui EXCEPT !.value = v, !.effect = TRUE, !.changes = @ + 1,
                        !.timers = {IF t = ui.handler /\ t.left > 0
                                    THEN Timer(t.value, t.left, TRUE) ELSE t : t \in @},
                        !.handler = IF @.left > 0 /\ @ \in ui.timers
                                    THEN Timer(@.value, @.left, TRUE) ELSE @,
                        !.dropped = IF ui.handler.left > 0 /\ ui.handler \in ui.timers
                                    THEN @ \cup {ui.value} ELSE @]
    /\ UNCHANGED <<backend, cache, obs, nmut, last>>

\* the cleanup of the last effect runs, then the effect: setTimeout(..., delay)
RunEffect ==
    /\ ui.effect
    /\ LET handler == Timer(ui.value, Delay, FALSE)
       IN  ui' = [ui EXCEPT !.timers = clearTimeout(@, ui.handler) \cup {handler},
                            !.handler = handler, !.effect = FALSE]
    /\ UNCHANGED <<backend, cache, obs, nmut, last>>

\* a timeout is due: its callback runs setDebouncedValue(value)
Fire(t) ==
    /\ t \in ui.timers
    /\ t.left = 0
    /\ ui' = [ui EXCEPT !.debouncedValue = t.value, !.timers = @ \ {t}]
    /\ UNCHANGED <<backend, cache, obs, nmut, last>>

\* one tick of the clock passes; effects run and due callbacks fire first
Tick ==
    /\ ~ui.effect
    /\ ui.timers # {}
    /\ \A t \in ui.timers : t.left > 0
    /\ ui' = [ui EXCEPT !.timers = {Timer(t.value, t.left - 1, t.early) : t \in @},
                        !.handler = IF @ \in ui.timers
                                    THEN Timer(@.value, @.left - 1, @.early) ELSE @]
    /\ UNCHANGED <<backend, cache, obs, nmut, last>>

DebounceNext ==
    \/ \E v \in Values : Render(v)
    \/ RunEffect
    \/ \E t \in ui.timers : Fire(t)
    \/ Tick

\* effects run, time passes and due timeouts fire
DebounceSpec ==
    /\ DebounceInit
    /\ [][DebounceNext]_vars
    /\ WF_vars(RunEffect)
    /\ WF_vars(Tick)
    /\ WF_vars(\E t \in ui.timers : Fire(t))

\* ------------------------------------- post mutations from read post data
\* a caller reads a post with getPostById and keeps the document
ReadPostData(postId) ==
    LET r == getPostById(postId, backend, "ok")
    IN  /\ ~Failed(r.ret)
        /\ ui' = [view |-> "post", post |-> r.ret]
        /\ UNCHANGED <<backend, cache, obs, nmut, last>>

\* the UpdatePost a caller builds from the document it holds
UpdatePostOf(data, file) ==
    [postId |-> data.id, caption |-> "new", imageId |-> data.imageId,
     imageUrl |-> data.imageUrl, file |-> file]

\* updatePost called with the held document's id and image; the caller
\* keeps the document it read, so a later call starts from the same data
UpdateFromRead(file, out) ==
    /\ ui.view = "post"
    /\ InvokeUpdatePost(UpdatePostOf(ui.post, file), out)

\* deletePost called with the held document's id and image
DeleteFromRead(out) ==
    /\ ui.view = "post"
    /\ InvokeDeletePost(ui.post.id, ui.post.imageId, out)

PostsNext ==
    \/ \E postId \in {"p1", "p2"} \cup {IdPool[i] : i \in 1..MaxIds} : ReadPostData(postId)
    \/ \E file \in {<<>>, <<"img">>}, out \in PostOutcomes : UpdateFromRead(file, out)
    \/ \E out \in DeleteOutcomes : DeleteFromRead(out)
    \/ \E post \in NewPosts, out \in PostOutcomes : InvokeCreatePost(post, out)

PostsSpec == OpsInit /\ [][PostsNext]_vars

\* -------------------------------------------------- Topbar and SigninForm
\* the status useMutation shows once the mutationFn's promise settled
MutationStatus(ret) == IF ret = Rejected THEN "error" ELSE "success"

\* `isSuccess` of useSignOutAccount()
isSuccess(u) == u.status = "success"

\* the Topbar of a signed-in user at "/", its effect due after the mount
TopbarUi == [view |-> "Topbar", location |-> "/", status |-> "idle", effect |-> TRUE]

\* what the SDK answers to an account call
SessionOutcomes == [account : Outcomes, doc : {"ok"}]

\* the record `last` keeps of a Gateway call
Called(op, in, out, r) ==
    [op |-> op, in |-> in, out |-> out, ret |-> r.ret, calls |-> r.calls,
     threw |-> Thrown(r.calls, out, backend)]

\* Topbar: onClick={() => signOut()}
ClickSignOut ==
    /\ ui.view = "Topbar"
    /\ ui.location = "/"
    /\ ui.status # "pending"
    /\ ~ui.effect
    /\ nmut < MaxCalls
    /\ nmut' = nmut + 1
    /\ ui' = [ui EXCEPT !.status = "pending"]
    /\ UNCHANGED <<backend, cache, obs, last>>

\* the promise of useSignOutAccount's mutationFn, signOutAccount, settles
SignOutSettles(out) ==
    /\ ui.view = "Topbar"
    /\ ui.status = "pending"
    /\ LET r == signOutAccount(backend, out)
           u == [ui EXCEPT !.status = MutationStatus(r.ret)]
       IN  /\ backend' = r.be
           /\ last' = Called("signOutAccount", Undefined, out, r)
           /\ ui' = [u EXCEPT !.effect = (isSuccess(u) # isSuccess(ui))]
    /\ UNCHANGED <<cache, obs, nmut>>

\* Topbar: useEffect(() => { if (isSuccess) navigate("/sign-in") }, [isSuccess])
TopbarEffect ==
    /\ ui.view = "Topbar"
    /\ ui.effect
    /\ ui' = [ui EXCEPT !.effect = FALSE,
                        !.location = IF isSuccess(ui) THEN "/sign-in" ELSE @]
    /\ UNCHANGED <<backend, cache, obs, nmut, last>>

\* the toast both failure branches of onSubmit show
SignInFailed == "Sign in failed! Please try again."

\* the sign-in form of a signed-out user at "/sign-in"; `values` is the
\* form's email field, `run` what the current onSubmit has done so far
SigninFormUi ==
    [view |-> "SigninForm", location |-> "/sign-in", pc |-> "idle", values |-> "",
     session |-> UndefinedDoc, isLoggedIn |-> UndefinedDoc, toast |-> Undefined,
     run |-> <<>>]

\* what `await checkAuthUser()` gives: true, false, or a rejection
AuthResults == {[value |-> TRUE], [value |-> FALSE], Rejected}

\* a SigninForm whose onSubmit goes on without a session
NoSessionNever(session) == FALSE

\* SigninForm onSubmit: `!session`
NoSession(session) == session = UndefinedDoc

\* SigninForm onSubmit up to `await signInAccount({email, password})`
Submit(email) ==
    /\ ui.view = "SigninForm"
    /\ ui.location = "/sign-in"
    /\ ui.pc = "idle"
    /\ nmut < MaxCalls
    /\ nmut' = nmut + 1
    /\ ui' = [ui EXCEPT !.pc = "signInAccount", !.values = email,
                        !.session = UndefinedDoc, !.isLoggedIn = UndefinedDoc,
                        !.run = <<"signInAccount">>]
    /\ UNCHANGED <<backend, cache, obs, last>>

\* onSubmit from the answer of signInAccount to `await checkAuthUser()`
SignInSettles(out) ==
    /\ ui.view = "SigninForm"
    /\ ui.pc = "signInAccount"
    /\ LET r == signInAccount([account |-> ui.values], backend, out)
       IN  /\ backend' = r.be
           /\ last' = Called("signInAccount", ui.values, out, r)
           /\ ui' = IF NoSession(r.ret)
                    THEN [ui EXCEPT !.pc = "idle", !.session = r.ret,
                                    !.toast = SignInFailed,
                                    !.run = Append(@, "toast")]
                    ELSE [ui EXCEPT !.pc = "checkAuthUser", !.session = r.ret,
                                    !.run = Append(@, "checkAuthUser")]
    /\ UNCHANGED <<cache, obs, nmut>>

\* onSubmit from the answer of checkAuthUser to its end
CheckAuthSettles(isLoggedIn) ==
    /\ ui.view = "SigninForm"
    /\ ui.pc = "checkAuthUser"
    /\ ui' = CASE isLoggedIn = Rejected ->
                    [ui EXCEPT !.pc = "idle", !.isLoggedIn = isLoggedIn]
               [] isLoggedIn = [value |-> TRUE] ->
                    [ui EXCEPT !.pc = "idle", !.isLoggedIn = isLoggedIn,
                               !.values = "", !.location = "/",
                               !.run = @ \o <<"reset", "navigate">>]
               [] OTHER ->
                    [ui EXCEPT !.pc = "idle", !.isLoggedIn = isLoggedIn,
                               !.toast = SignInFailed,
                               !.run = Append(@, "toast")]
    /\ UNCHANGED <<backend, cache, obs, nmut, last>>

\* the app shows the Topbar to a user who signed in, whose session is live
\* or has expired since, or the sign-in form to a signed-out one
AuthInit ==
    /\ \/ /\ \E a \in {"a1", "a2", Undefined} :
                backend = [SeedBackend EXCEPT !.account = a]
          /\ ui = TopbarUi
       \/ backend = [SeedBackend EXCEPT !.account = Undefined] /\ ui = SigninFormUi
    /\ cache = [h \in Hashes |-> NoEntry]
    /\ obs = [c \in Comps |-> NoRead]
    /\ nmut = 0
    /\ last = NoLast

AuthNext ==
    \/ ClickSignOut
    \/ \E out \in SessionOutcomes : SignOutSettles(out)
    \/ TopbarEffect
    \/ \E email \in {"a1", "a2", MissingId} : Submit(email)
    \/ \E out \in SessionOutcomes : SignInSettles(out)
    \/ \E isLoggedIn \in AuthResults : CheckAuthSettles(isLoggedIn)

AuthSpec == AuthInit /\ [][AuthNext]_vars

\* ---------------------------------------------------------------- claims
RecentHash == HashOf(Read("useGetRecentPosts", Undefined))
CurrentUserHash == HashOf(Read("useGetCurrentUser", Undefined))
PostByIdHash(postId) == HashOf(Read("useGetPostById", postId))

MutationHooks ==
    {"useCreatePost", "useUpdatePost", "useDeletePost", "useLikePost", "useSavePost",
     "useDeleteSavedPost"}

\* the step just taken was this hook's mutation and the backend accepted it
Succeeded(hook) == last.op = hook /\ last.ok

\* every entry of S that holds data is marked stale (a key no mounted read
\* has used has no entry)
AllStale(S) == \A h \in S \cap Hashes : HasData(cache[h]) => Stale(cache[h])

\* C1: right after a successful like of post p, the entries post-by-id(p),
\* recent-posts, the feed of useGetPosts and current-user are all stale.
C1_LikeMarksStale ==
    Succeeded("useLikePost") =>
        AllStale({PostByIdHash(last.id), RecentHash, FeedHash, CurrentUserHash})

\* C2: right after a successful update of post p, the entry post-by-id(p), of
\* that same p, is stale.
C2_UpdateMarksPostStale ==
    Succeeded("useUpdatePost") => AllStale({PostByIdHash(last.id)})

C2_Witness ==
    /\ Succeeded("useUpdatePost")
    /\ PostByIdHash(last.id) \in Hashes
    /\ Stale(cache[PostByIdHash(last.id)])

\* C3: right after a successful save and after a successful delete-saved, the
\* entries recent-posts, the feed and current-user are all stale.
C3_SaveMarksStale ==
    (Succeeded("useSavePost") \/ Succeeded("useDeleteSavedPost")) =>
        AllStale({RecentHash, FeedHash, CurrentUserHash})

\* C4: right after a successful create and after a successful delete of a
\* post, the recent-posts entry is stale.
C4_CreateDeleteMarkRecentStale ==
    (Succeeded("useCreatePost") \/ Succeeded("useDeletePost")) =>
        AllStale({RecentHash})

C4_Witness ==
    /\ Succeeded("useCreatePost")
    /\ Stale(cache[RecentHash])

\* the invalidation table: the entries listed for a mutation
Listed(hook, id) ==
    CASE hook \in {"useCreatePost", "useDeletePost"} -> {RecentHash}
      [] hook = "useUpdatePost" -> {PostByIdHash(id)}
      [] hook = "useLikePost" ->
           {PostByIdHash(id), RecentHash, FeedHash, CurrentUserHash}
      [] OTHER -> {RecentHash, FeedHash, CurrentUserHash}

\* C5: right after a successful mutation, every listed entry that holds data
\* is stale, it has been refetched exactly once if a reader of it is mounted,
\* and not at all otherwise.
C5_OneRefetchPerReader ==
    (last.op \in MutationHooks /\ last.ok) =>
        \A h \in Listed(last.op, last.id) :
            HasData(cache[h]) =>
                /\ Stale(cache[h])
                /\ last.issued[h] = IF Active(h, obs) THEN 1 ELSE 0

DeleteFileCalls(calls) == SelectSeq(calls, LAMBDA c : c.op = "storage.deleteFile")

\* C6: when createPost's document creation fails after the upload (and the
\* preview) succeeded, createPost returns failure having issued exactly one
\* storage.deleteFile, for the id of the uploaded file.
C6_CompensatingDelete ==
    (/\ last.op = "createPost"
     /\ last.out.upload = "ok"
     /\ last.out.preview = "ok"
     /\ last.out.doc # "ok") =>
        /\ last.ret = UndefinedDoc
        /\ DeleteFileCalls(last.calls) = <<Call("storage.deleteFile", last.calls[1].arg)>>

\* what the read of entry e returns from the backend now
Current(e) == FetchResult([e EXCEPT !.fetching = "fetch"], backend, "ok")

\* C7: every fresh entry holds what its read returns from the backend now.
C7_FreshIsCurrent ==
    \A h \in Hashes : Fresh(cache[h]) => cache[h].data = Current(cache[h])

EmptyReads ==
    {r \in Reads :
        /\ r.hook \in {"useGetPostById", "useGetUserPosts", "useSearchPosts",
                       "useGetUserById"}
        /\ r.arg \in {Undefined, ""}}

\* C9: no Gateway call is ever issued for a parameterized read whose
\* discriminator is empty: no step issues one, and its entry is never
\* fetching nor filled.
C9_EmptyReadsNeverFetch ==
    \A r \in EmptyReads :
        /\ last.op # "none" /\ last.op # "createPost" => last.issued[HashOf(r)] = 0
        /\ cache[HashOf(r)] = NoEntry

\* a reader with an undefined post id is mounted and an invalidation of
\* [getPostById, undefined] (a failed update) has just matched its key
C9_Witness ==
    /\ \E c \in Comps : obs[c] = Read("useGetPostById", Undefined)
    /\ last.op = "useUpdatePost"
    /\ ~last.ok

FeedOrder == OrderDesc(backend.posts, "updatedAt")

RECURSIVE Flat(_)
Flat(pages) ==
    IF pages = <<>> THEN <<>> ELSE Head(pages).documents \o Flat(Tail(pages))

\* C10: the first page is fetched without a cursor and is the head of the
\* feed; every further page is fetched with the id of the last item of the
\* page before and holds the items that follow it; a page without items
\* ends the feed (no next cursor) and a page with items does not.
C10_FeedPaging ==
    LET e == cache[FeedHash]
        pages == e.data.pages
        params == e.data.pageParams
        seen(i) == Len(Flat(SubSeq(pages, 1, i)))
        left(i) == Len(FeedOrder) - seen(i - 1)
    IN  HasData(e) =>
        /\ Len(pages) >= 1
        /\ Len(params) = Len(pages)
        /\ params[1] = Undefined
        /\ \A i \in 2..Len(pages) :
              /\ pages[i - 1].documents # <<>>
              /\ params[i] = pages[i - 1].documents[Len(pages[i - 1].documents)].id
        /\ Flat(pages) = SubSeq(FeedOrder, 1, Len(Flat(pages)))
        /\ \A i \in 1..Len(pages) :
              Len(pages[i].documents) = IF left(i) < FeedLimit THEN left(i) ELSE FeedLimit
        /\ hasNextPage(e) <=> pages[Len(pages)].documents # <<>>

\* the feed was paged to its end: a page with items, then a page without
C10_Witness ==
    LET e == cache[FeedHash]
    IN  /\ HasData(e)
        /\ Len(e.data.pages) >= 2
        /\ e.data.pages[1].documents # <<>>
        /\ e.data.pages[Len(e.data.pages)].documents = <<>>
        /\ ~hasNextPage(e)

\* C11: create-post with {userId: "u1", caption: "hi", file: [img]} on a
\* backend that accepts every step returns a new post document, stored in the
\* backend, with creator "u1", caption "hi", a non-empty imageUrl and the id
\* of a stored file as imageId; right after, the recent-posts entry is stale.
C11_CreateEndToEnd ==
    Succeeded("useCreatePost") =>
        /\ last.ret \in backend.posts
        /\ last.ret.creator = "u1"
        /\ last.ret.caption = "hi"
        /\ last.ret.imageUrl # <<>>
        /\ ~Falsy(last.ret.imageId)
        /\ last.ret.imageId \in backend.files
        /\ AllStale({RecentHash})

\* a post was created while a component showed the loaded recent posts
C11_Witness ==
    /\ Succeeded("useCreatePost")
    /\ last.ret.creator = "u1"
    /\ Stale(cache[RecentHash])
    /\ last.issued[RecentHash] = 1

\* C12: no Gateway operation rejects, whatever its input; and any operation
\* other than createUserAccount one of whose backend calls threw returns
\* undefined.
C12_NoPropagation ==
    last.op # "none" =>
        /\ last.ret # Rejected
        /\ (last.op # "createUserAccount" /\ last.threw) => last.ret = UndefinedDoc

\* the value is one a catch block received
IsErrorValue(v) == DOMAIN v = {"error"}

\* C13: createUserAccount returns the new user document when account.create
\* and the save of the user record both succeeded, and the error value when
\* either of them failed.
C13_AccountCreationErrors ==
    last.op = "createUserAccount" =>
        IF last.out.account = "ok" /\ last.out.doc = "ok"
        THEN last.ret \in backend.users
        ELSE IsErrorValue(last.ret)

\* the call lacks an id the operation requires
MissingRequiredId ==
    \/ last.op \in {"getPostById", "getUserPosts"} /\ Falsy(last.in)
    \/ last.op = "deletePost" /\ (Falsy(last.in[1]) \/ Falsy(last.in[2]))

\* C14: getPostById without postId, getUserPosts without userId and
\* deletePost without postId or imageId issue no backend call and return
\* undefined.
C14_ShortCircuit ==
    MissingRequiredId => last.calls = <<>> /\ last.ret = UndefinedDoc

\* C16: createPost first uploads; the preview is asked only for a file that
\* was uploaded; the document is created only after both, third, with the
\* uploaded file's id for imageId and the preview URL for imageUrl; a failed
\* upload is the only call.
C16_CreatePostOrder ==
    LET c == last.calls
    IN  last.op = "createPost" =>
        /\ Len(c) >= 1
        /\ c[1].op = "storage.createFile"
        /\ last.out.upload # "ok" => Len(c) = 1
        /\ \A i \in 1..Len(c) :
              /\ c[i].op = "storage.getFilePreview" =>
                    i = 2 /\ last.out.upload = "ok" /\ c[i].arg = c[1].arg
              /\ c[i].op = "databases.createDocument" =>
                    /\ i = 3
                    /\ last.out.upload = "ok"
                    /\ c[2].op = "storage.getFilePreview"
                    /\ last.out.preview = "ok"
                    /\ c[i].data.imageId = c[1].arg
                    /\ c[i].data.imageUrl = <<"preview", c[1].arg>>

\* the document was asked for after an upload and a preview, and refused
C16_Witness ==
    /\ last.op = "createPost"
    /\ Len(last.calls) >= 3
    /\ last.calls[3].op = "databases.createDocument"
    /\ last.out.doc = "throw"
    /\ last.ret = UndefinedDoc

\* C17: when deletePost(postId, imageId) returns {status: "Ok"}, the post
\* document postId and the stored file imageId are both gone.
C17_DeleteCascades ==
    (last.op = "deletePost" /\ last.ret = [status |-> "Ok"]) =>
        /\ PostById(backend, last.in[1]) = {}
        /\ last.in[2] \notin backend.files

StorageCalls(calls) ==
    SelectSeq(calls, LAMBDA c : c.op \in {"storage.createFile", "storage.getFilePreview",
                                          "storage.deleteFile"})

\* C20: updatePost with a new file, whose document update fails after the
\* upload (and the preview) succeeded, returns failure having deleted the
\* new file and not the post's previous one; updatePost without a new file
\* issues no storage call and sends the imageUrl and imageId it was given.
C20_UpdateCleanup ==
    LET c == last.calls
    IN  last.op = "updatePost" =>
        IF Len(last.in.file) > 0
        THEN (/\ last.out.upload = "ok"
              /\ last.out.preview = "ok"
              /\ last.ret = UndefinedDoc) =>
                 DeleteFileCalls(c) = <<Call("storage.deleteFile", c[1].arg)>>
        ELSE /\ StorageCalls(c) = <<>>
             /\ Len(c) = 1
             /\ c[1].data.imageUrl = last.in.imageUrl
             /\ c[1].data.imageId = last.in.imageId

\* C18: two mounted reads that differ in hook or in argument use different
\* cache entries, and the data a mounted read is handed was fetched by that
\* same read.
C18_NoKeySharing ==
    \A c \in Comps :
        obs[c] # NoRead =>
            /\ \A d \in Comps :
                  (obs[d] # NoRead /\ obs[d] # obs[c]) => HashOf(obs[d]) # HashOf(obs[c])
            /\ HasData(cache[HashOf(obs[c])]) => cache[HashOf(obs[c])].fn = obs[c]

\* C19: a mutation whose backend call failed leaves the cache as it was: no
\* entry is marked stale and no refetch starts.
C19_InvalidateOnlyOnSuccess ==
    [][(nmut' = nmut + 1 /\ ~last'.ok) =>
          /\ cache' = cache
          /\ last'.issued = NoneIssued]_vars

\* the state of a cache entry, in the words of the spec
StateOf(e) ==
    CASE Loading(e) -> "loading"
      [] ~HasData(e) -> "absent"
      [] e.isInvalidated -> "stale"
      [] OTHER -> "fresh"

\* the step just taken ended a fetch with a failure
FailedRead == last.op = "resolve" /\ ~last.ok

C21_Debounce ==
    /\ [][ui'.debouncedValue # ui.debouncedValue =>
            \E t \in ui.timers :
               /\ t.value = ui'.debouncedValue
               /\ t.left = 0
               /\ ~t.early]_vars
    /\ <>[](ui.debouncedValue = ui.value)

\* the input went through a value that was replaced within the delay and the
\* debounced value has moved on to a later input
C21_Witness ==
    /\ ui.view = "useDebounce"
    /\ ui.dropped # {}
    /\ ui.debouncedValue \notin ui.dropped
    /\ ui.debouncedValue = ui.value
    /\ ui.timers = {}
    /\ ~ui.effect

\* a stored post whose imageId names no stored file
Dangling(be) == {d \in be.posts : d.imageId \notin be.files}

\* C22: after any interleaving of createPost, updatePost and deletePost
\* calls, two updatePost calls from the same read post data and failing
\* backend steps included, every stored post's imageId names a stored file.
C22_NoDanglingImage == Dangling(backend) = {}

\* C23: the Topbar is at /sign-in only when the backend session has been
\* deleted; after a delete-session call that failed it is not at /sign-in.
C23_SignOutNavigation ==
    (ui.view = "Topbar" /\ ui.location = "/sign-in") =>
        /\ backend.account = Undefined
        /\ last.op = "signOutAccount"
        /\ last.ret = [deleted |-> TRUE]

\* C24: an onSubmit of the sign-in form resets the form and navigates to
\* "/" only after signInAccount gave a session and then checkAuthUser gave
\* true, in that order; without a session it shows the failure toast and
\* never calls checkAuthUser; when checkAuthUser gives false it shows the
\* failure toast and stays at /sign-in.
C24_SignInFlow ==
    LET run == ui.run
        ended == ui.pc = "idle" /\ run # <<>>
        did(what) == \E i \in 1..Len(run) : run[i] = what
    IN  ui.view = "SigninForm" =>
        /\ (ui.location = "/" \/ did("navigate") \/ did("reset")) =>
              /\ run = <<"signInAccount", "checkAuthUser", "reset", "navigate">>
              /\ ui.session # UndefinedDoc
              /\ ui.isLoggedIn = [value |-> TRUE]
              /\ ui.values = ""
              /\ ui.location = "/"
        /\ (ended /\ ui.session = UndefinedDoc) =>
              /\ run = <<"signInAccount", "toast">>
              /\ ui.toast = SignInFailed
              /\ ui.location = "/sign-in"
        /\ (ended /\ ui.isLoggedIn = [value |-> FALSE]) =>
              /\ run = <<"signInAccount", "checkAuthUser", "toast">>
              /\ ui.toast = SignInFailed
              /\ ui.location = "/sign-in"

\* a first submit failed with the toast, a second one got a session and
\* true from checkAuthUser and went to "/"
C24_Witness ==
    /\ ui.view = "SigninForm"
    /\ ui.toast = SignInFailed
    /\ ui.location = "/"
    /\ ui.values = ""
    /\ backend.account = "a2"

====
